---- MODULE Spec2Model ----
(***************************************************************************)
(* Model of homework.py: a single sequential loop that polls a homework    *)
(* review API, validates the answer, translates each homework's status to  *)
(* a verdict text, sends it to one chat, and reports failures to the same  *)
(* chat.                                                                   *)
(*                                                                         *)
(* Python values are modelled as follows.                                  *)
(*   - None (the cursor or a current_date that is absent) is the integer   *)
(*     NoneInt, which lies outside the timestamps 0..MaxTime.              *)
(*   - None as a string-valued field (dict.get of an absent key) is the    *)
(*     string NoneStr; the inputs never hold that string themselves.       *)
(*   - An f-string is the tuple of its parts.                              *)
(*   - An exception is a record [type, msg]: the Python class raised and   *)
(*     the parts of its message.                                           *)
(***************************************************************************)
EXTENDS Integers, Sequences, FiniteSets, TLC

VARIABLES
    tokens,             \* PRACTICUM_TOKEN, TELEGRAM_TOKEN, TELEGRAM_CHAT_ID: present or missing
    pc,                 \* position of main()
    clock,              \* the latest value read from int(time.time())
    current_timestamp,  \* main's cursor
    response,           \* main's local `response`
    homeworks,          \* main's local `homeworks`
    idx,                \* position of the `for homework in homeworks` loop
    error,              \* the exception the current cycle raised, NoError if none
    from_date,          \* params['from_date'] of the latest requests.get
    parsed,             \* whether response.json() was called in the latest fetch
    notified,           \* homework messages delivered by bot.send_message in this cycle
    diag,               \* diagnostic messages handed to send_message in this cycle
    sleeps,             \* time.sleep durations since the latest fetch
    fetchGap,           \* the sleeps between the latest fetch and the one before it
    cycleStart,         \* the cursor's value when the current cycle began
    lastCycle,          \* how the cycle before the current one ended: the current_date it saw
                        \* if it succeeded, the from_date it used if it failed
    entered,            \* main() entered `while True`
    everFetched,        \* requests.get was called at least once
    everSent,           \* bot.send_message was called at least once
    lastHttp,           \* what requests.get did in the latest fetch
    sendFailed,         \* position of the record whose notification bot.send_message refused in this cycle, 0 if none
    firstRun            \* the first poll cycle as remembered for a replay against the same answer

vars == <<tokens, pc, clock, current_timestamp, response, homeworks, idx, error,
          from_date, parsed, notified, diag, sleeps, fetchGap, cycleStart,
          lastCycle, entered, everFetched, everSent, lastHttp, sendFailed, firstRun>>

(***************************************************************************)
(* Bounds of the model and constants of the program                       *)
(***************************************************************************)
MaxTime == 2
MaxHomeworks == 2

RETRY_TIME == 600
HTTP_OK == 200

ENDPOINT == "https://practicum.yandex.ru/api/user_api/homework_statuses/"

HOMEWORK_STATUSES ==
    [approved  |-> "verdict_approved",
     reviewing |-> "verdict_reviewing",
     rejected  |-> "verdict_rejected"]

NoneInt == -1
NoneStr == "None"
Unhashable == "<unhashable list>"   \* a status that is a JSON array

NoError == [type |-> "NoError", msg |-> <<>>]

NoCycle == [result |-> "none", current_date |-> NoneInt, from_date |-> NoneInt]

ClockTimes == 1..MaxTime          \* readings of int(time.time())
ServerDates == 0..MaxTime         \* values a server can put in current_date

(***************************************************************************)
(* Inputs: the JSON values an API answer can hold                          *)
(***************************************************************************)
Names == {"task1"}

HomeworkRecords ==
    {<< >>}
    \cup {[homework_name |-> n] : n \in Names}
    \cup {[status |-> "approved"]}
    \cup {[homework_name |-> n, status |-> s] :
            n \in Names, s \in {"approved", "rejected", "in_review", Unhashable}}

HomeworkLists == UNION {[1..n -> HomeworkRecords] : n \in 0..MaxHomeworks}

NoList == [type |-> "NoneType", items |-> << >>]

HomeworksValues ==
    {[type |-> "list", items |-> l] : l \in HomeworkLists}
    \cup {NoList}
    \cup {[type |-> "str", items |-> << >>]}

JsonValues ==
    {[type |-> "dict", homeworks |-> h, current_date |-> d] :
        h \in HomeworksValues, d \in ServerDates \cup {NoneInt}}
    \cup {[type |-> "list", homeworks |-> NoList, current_date |-> NoneInt]}

NoResponse == [type |-> "unbound", homeworks |-> NoList, current_date |-> NoneInt]

\* What requests.get does: raise, or answer with a status code and a body
\* that parses as JSON or does not.
HttpOutcomes ==
    {[raised |-> TRUE, status_code |-> 0, is_json |-> FALSE, json |-> NoResponse]}
    \cup {[raised |-> FALSE, status_code |-> 503, is_json |-> FALSE,
           json |-> NoResponse]}
    \cup {[raised |-> FALSE, status_code |-> HTTP_OK, is_json |-> FALSE,
           json |-> NoResponse]}
    \cup {[raised |-> FALSE, status_code |-> HTTP_OK, is_json |-> TRUE, json |-> j] :
            j \in JsonValues}

NoHttp == [raised |-> FALSE, status_code |-> NoneInt, is_json |-> FALSE, json |-> NoResponse]

NoRun == [done |-> FALSE, http |-> NoHttp, cursor |-> NoneInt, notified |-> << >>,
          sendFailed |-> 0, error |-> NoError]

TokenSets == [practicum : BOOLEAN, telegram : BOOLEAN, chat : BOOLEAN]

(***************************************************************************)
(* Pure functions of the program                                           *)
(***************************************************************************)
\* Python truthiness of the cursor: None and 0 are falsy.
Falsy(x) == x = NoneInt \/ x = 0

\* dict.get(key) on a homework record
Get(homework, key) == IF key \in DOMAIN homework THEN homework[key] ELSE NoneStr

\* str(KeyError(key)): the repr of the key
ReprKey(key) == IF key = NoneStr THEN <<"None">> ELSE <<"'", key, "'">>

\* send_message: delivered is what bot.send_message did
send_message(message, delivered) ==
    IF delivered THEN NoError
    ELSE [type |-> "TelegramError", msg |-> <<"send_failed">>]

WindowStart_AlwaysNow(timestamp_arg, now) == now

WindowStart_NoneOnly(timestamp_arg, now) ==
    IF timestamp_arg = NoneInt THEN now ELSE timestamp_arg

\* Line 51: timestamp = current_timestamp or int(time.time())
WindowStart(timestamp_arg, now) == IF Falsy(timestamp_arg) THEN now ELSE timestamp_arg

get_api_answer_ParsesFirst(timestamp_arg, now, http) ==
    LET timestamp == WindowStart(timestamp_arg, now)
    IN  IF http.raised
        THEN [from_date |-> timestamp, parsed |-> FALSE, val |-> NoResponse,
              err |-> [type |-> "RequestException",
                       msg |-> <<"endpoint_unavailable", ENDPOINT>>]]
        ELSE IF ~http.is_json
        THEN [from_date |-> timestamp, parsed |-> TRUE, val |-> NoResponse,
              err |-> [type |-> "ValueError", msg |-> <<"not_json">>]]
        ELSE IF http.status_code # HTTP_OK
        THEN [from_date |-> timestamp, parsed |-> TRUE, val |-> NoResponse,
              err |-> [type |-> "ValueError",
                       msg |-> <<"unexpected_status_code", ENDPOINT>>]]
        ELSE [from_date |-> timestamp, parsed |-> TRUE, val |-> http.json,
              err |-> NoError]

\* get_api_answer: the from_date used, whether the body was parsed, and the
\* value returned or the exception raised.
get_api_answer(timestamp_arg, now, http) ==
    LET timestamp == WindowStart(timestamp_arg, now)
    IN  IF http.raised
        THEN [from_date |-> timestamp, parsed |-> FALSE, val |-> NoResponse,
              err |-> [type |-> "RequestException",
                       msg |-> <<"endpoint_unavailable", ENDPOINT>>]]
        ELSE IF http.status_code # HTTP_OK
        THEN [from_date |-> timestamp, parsed |-> FALSE, val |-> NoResponse,
              err |-> [type |-> "ValueError",
                       msg |-> <<"unexpected_status_code", ENDPOINT>>]]
        ELSE IF ~http.is_json
        THEN [from_date |-> timestamp, parsed |-> TRUE, val |-> NoResponse,
              err |-> [type |-> "ValueError", msg |-> <<"not_json">>]]
        ELSE [from_date |-> timestamp, parsed |-> TRUE, val |-> http.json,
              err |-> NoError]

check_response_NoListCheck(resp) ==
    IF resp.type # "dict"
    THEN [val |-> << >>,
          err |-> [type |-> "TypeError", msg |-> <<"bad_response_type", resp.type>>]]
    ELSE [val |-> resp.homeworks.items, err |-> NoError]

check_response(resp) ==
    IF resp.type # "dict"
    THEN [val |-> << >>,
          err |-> [type |-> "TypeError", msg |-> <<"bad_response_type", resp.type>>]]
    ELSE IF resp.homeworks.type # "list"
    THEN [val |-> << >>,
          err |-> [type |-> "TypeError",
                   msg |-> <<"bad_homeworks_type", resp.homeworks.type>>]]
    ELSE [val |-> resp.homeworks.items, err |-> NoError]

parse_status_RawStatus(homework) ==
    IF Cardinality(DOMAIN homework) = 0
    THEN [val |-> << >>,
          err |-> [type |-> "UnboundLocalError", msg |-> <<"homework_status">>]]
    ELSE LET homework_name == Get(homework, "homework_name")
             homework_status == Get(homework, "status")
         IN  IF homework_status = Unhashable
             THEN [val |-> << >>,
                   err |-> [type |-> "TypeError", msg |-> <<"unhashable type">>]]
             ELSE IF homework_status \notin DOMAIN HOMEWORK_STATUSES
             THEN [val |-> << >>,
                   err |-> [type |-> "KeyError",
                            msg |-> <<"undocumented_status">> \o ReprKey(homework_status)]]
             ELSE [val |-> <<"status_changed", homework_name, homework_status>>,
                   err |-> NoError]

\* parse_status: homework_name and homework_status are bound only when the
\* record is non-empty; a status that is a list cannot be hashed.
parse_status(homework) ==
    IF Cardinality(DOMAIN homework) = 0
    THEN [val |-> << >>,
          err |-> [type |-> "UnboundLocalError", msg |-> <<"homework_status">>]]
    ELSE LET homework_name == Get(homework, "homework_name")
             homework_status == Get(homework, "status")
         IN  IF homework_status = Unhashable
             THEN [val |-> << >>,
                   err |-> [type |-> "TypeError", msg |-> <<"unhashable type">>]]
             ELSE IF homework_status \notin DOMAIN HOMEWORK_STATUSES
             THEN [val |-> << >>,
                   err |-> [type |-> "KeyError",
                            msg |-> <<"undocumented_status">> \o ReprKey(homework_status)]]
             ELSE [val |-> <<"status_changed", homework_name,
                             HOMEWORK_STATUSES[homework_status]>>,
                   err |-> NoError]

check_tokens_NoChatCheck(t) == t.practicum /\ t.telegram

check_tokens(t) == t.practicum /\ t.telegram /\ t.chat

\* f'Сбой в работе программы: {error}'
Diagnostic(err) == <<"program_failure">> \o err.msg

(***************************************************************************)
(* main()                                                                  *)
(***************************************************************************)
Init ==
    /\ tokens \in TokenSets
    /\ pc = "start"
    /\ clock = NoneInt
    /\ current_timestamp = NoneInt
    /\ response = NoResponse
    /\ homeworks = << >>
    /\ idx = 0
    /\ error = NoError
    /\ from_date = NoneInt
    /\ parsed = FALSE
    /\ notified = << >>
    /\ diag = << >>
    /\ sleeps = << >>
    /\ fetchGap = << >>
    /\ cycleStart = NoneInt
    /\ lastCycle = NoCycle
    /\ entered = FALSE
    /\ everFetched = FALSE
    /\ everSent = FALSE
    /\ lastHttp = NoHttp
    /\ sendFailed = 0
    /\ firstRun = NoRun

\* Lines 125-126: telegram.Bot(token=TELEGRAM_TOKEN) and the first reading of
\* the clock.  The library is free to reject a missing token by raising.
Start ==
    /\ pc = "start"
    /\ \/ /\ \E t \in ClockTimes : clock' = t /\ current_timestamp' = t
          /\ pc' = "check"
       \/ /\ ~tokens.telegram
          /\ pc' = "crashed"
          /\ UNCHANGED <<clock, current_timestamp>>
    /\ UNCHANGED <<tokens, response, homeworks, idx, error, from_date, parsed,
                   notified, diag, sleeps, fetchGap, cycleStart, lastCycle, entered,
                   everFetched, everSent, 
                   lastHttp, sendFailed, firstRun>>

\* Line 127: if check_tokens(): while True ... ; otherwise main returns.
CheckTokens ==
    /\ pc = "check"
    /\ IF check_tokens(tokens)
       THEN pc' = "fetch" /\ entered' = TRUE
       ELSE pc' = "exited" /\ entered' = FALSE
    /\ UNCHANGED <<tokens, clock, current_timestamp, response, homeworks, idx,
                   error, from_date, parsed, notified, diag, sleeps, fetchGap,
                   cycleStart, lastCycle, everFetched, everSent, 
                   lastHttp, sendFailed, firstRun>>

\* Line 130: response = get_api_answer(current_timestamp), with outcome as
\* what requests.get does.
FetchWith(outcome) ==
    /\ pc = "fetch"
    /\ \E now \in ClockTimes :
          LET r == get_api_answer(current_timestamp, now, outcome)
          IN  /\ clock' = IF Falsy(current_timestamp) THEN now ELSE clock
              /\ from_date' = r.from_date
              /\ parsed' = r.parsed
              /\ error' = r.err
              /\ IF r.err = NoError
                 THEN response' = r.val /\ pc' = "validate"
                 ELSE response' = NoResponse /\ pc' = "handler"
    /\ lastHttp' = outcome
    /\ cycleStart' = current_timestamp
    /\ notified' = << >>
    /\ diag' = << >>
    /\ sendFailed' = 0
    /\ fetchGap' = IF everFetched THEN sleeps ELSE << >>
    /\ sleeps' = << >>
    /\ homeworks' = << >>
    /\ idx' = 0
    /\ everFetched' = TRUE
    /\ UNCHANGED <<tokens, current_timestamp, lastCycle, entered, everSent, firstRun>>

Fetch == \E outcome \in HttpOutcomes : FetchWith(outcome)

\* Line 131: homeworks = check_response(response)
Validate ==
    /\ pc = "validate"
    /\ LET r == check_response(response)
       IN  IF r.err = NoError
           THEN homeworks' = r.val /\ idx' = 1 /\ error' = error /\ pc' = "notify"
           ELSE homeworks' = homeworks /\ idx' = idx /\ error' = r.err /\ pc' = "handler"
    /\ UNCHANGED <<tokens, clock, current_timestamp, response, from_date, parsed,
                   notified, diag, sleeps, fetchGap, cycleStart, lastCycle, entered,
                   everFetched, everSent, 
                   lastHttp, sendFailed, firstRun>>

NotifyOne_Dedup ==
    /\ pc = "notify"
    /\ idx <= Len(homeworks)
    /\ LET p == parse_status(homeworks[idx])
       IN  IF p.err # NoError
           THEN /\ error' = p.err
                /\ pc' = "handler"
                /\ UNCHANGED <<idx, notified, everSent, sendFailed>>
           ELSE IF \E k \in DOMAIN firstRun.notified : firstRun.notified[k] = p.val
           THEN /\ idx' = idx + 1
                /\ UNCHANGED <<error, pc, notified, everSent, sendFailed>>
           ELSE \E delivered \in BOOLEAN :
                  LET s == send_message(p.val, delivered)
                  IN  /\ everSent' = TRUE
                      /\ IF s = NoError
                         THEN /\ notified' = Append(notified, p.val)
                              /\ idx' = idx + 1
                              /\ UNCHANGED <<error, pc, sendFailed>>
                         ELSE /\ error' = s
                              /\ pc' = "handler"
                              /\ sendFailed' = idx
                              /\ UNCHANGED <<idx, notified>>
    /\ UNCHANGED <<tokens, clock, current_timestamp, response, homeworks, from_date,
                   parsed, diag, sleeps, fetchGap, cycleStart, lastCycle, entered,
                   everFetched, lastHttp, firstRun>>

NotifyOne_SwallowsSendFailure ==
    /\ pc = "notify"
    /\ idx <= Len(homeworks)
    /\ LET p == parse_status(homeworks[idx])
       IN  IF p.err # NoError
           THEN /\ error' = p.err
                /\ pc' = "handler"
                /\ UNCHANGED <<idx, notified, everSent, sendFailed>>
           ELSE \E delivered \in BOOLEAN :
                  LET s == send_message(p.val, delivered)
                  IN  /\ everSent' = TRUE
                      /\ IF s = NoError
                         THEN /\ notified' = Append(notified, p.val)
                              /\ idx' = idx + 1
                              /\ UNCHANGED <<error, pc, sendFailed>>
                         ELSE /\ sendFailed' = idx
                              /\ idx' = idx + 1
                              /\ UNCHANGED <<error, pc, notified>>
    /\ UNCHANGED <<tokens, clock, current_timestamp, response, homeworks, from_date,
                   parsed, diag, sleeps, fetchGap, cycleStart, lastCycle, entered,
                   everFetched, lastHttp, firstRun>>

\* Lines 137-140: one pass of the for loop: parse_status, then send_message.
NotifyOne ==
    /\ pc = "notify"
    /\ idx <= Len(homeworks)
    /\ LET p == parse_status(homeworks[idx])
       IN  IF p.err # NoError
           THEN /\ error' = p.err
                /\ pc' = "handler"
                /\ UNCHANGED <<idx, notified, everSent, sendFailed>>
           ELSE \E delivered \in BOOLEAN :
                  LET s == send_message(p.val, delivered)
                  IN  /\ everSent' = TRUE
                      /\ IF s = NoError
                         THEN /\ notified' = Append(notified, p.val)
                              /\ idx' = idx + 1
                              /\ UNCHANGED <<error, pc, sendFailed>>
                         ELSE /\ error' = s
                              /\ pc' = "handler"
                              /\ sendFailed' = idx
                              /\ UNCHANGED <<idx, notified>>
    /\ UNCHANGED <<tokens, clock, current_timestamp, response, homeworks, from_date,
                   parsed, diag, sleeps, fetchGap, cycleStart, lastCycle, entered,
                   everFetched, lastHttp, firstRun>>

\* Line 141: current_timestamp = response.get('current_date')
AdvanceCursor ==
    /\ pc = "notify"
    /\ idx > Len(homeworks)
    /\ current_timestamp' = response.current_date
    /\ pc' = "sleep_ok"
    /\ UNCHANGED <<tokens, clock, response, homeworks, idx, error, from_date, parsed,
                   notified, diag, sleeps, fetchGap, cycleStart, lastCycle, entered,
                   everFetched, everSent, 
                   lastHttp, sendFailed, firstRun>>

\* Line 142 (and the else clause, which only logs): time.sleep(RETRY_TIME).
\* The cycle is over: what it observed is summed up in lastCycle, and the
\* locals that the next pass overwrites before reading them are blanked.
EndCycleOk ==
    /\ pc = "sleep_ok"
    /\ sleeps' = Append(sleeps, RETRY_TIME)
    /\ pc' = "fetch"
    /\ lastCycle' = [result |-> "ok", current_date |-> response.current_date,
                     from_date |-> NoneInt]
    /\ response' = NoResponse
    /\ homeworks' = << >>
    /\ idx' = 0
    /\ notified' = << >>
    /\ lastHttp' = NoHttp
    /\ UNCHANGED <<tokens, clock, current_timestamp, error, from_date, parsed, diag,
                   fetchGap, cycleStart, entered, everFetched, everSent, sendFailed>>

SleepAfterSuccess == EndCycleOk /\ UNCHANGED firstRun

HandleError_ResetsCursor ==
    /\ pc = "handler"
    /\ \E delivered \in BOOLEAN :
          LET message == Diagnostic(error)
              s == send_message(message, delivered)
          IN  /\ diag' = Append(diag, message)
              /\ everSent' = TRUE
              /\ pc' = IF s = NoError THEN "sleep_err" ELSE "crashed"
    /\ \E t \in ClockTimes : current_timestamp' = t /\ clock' = t
    /\ UNCHANGED <<tokens, response, homeworks, idx, error,
                   from_date, parsed, notified, sleeps, fetchGap, cycleStart,
                   lastCycle, entered, everFetched,
                   lastHttp, sendFailed, firstRun>>

\* Lines 144-147: the handler sends the diagnostic; a TelegramError raised by
\* that send is raised inside the except clause and leaves main().
HandleError ==
    /\ pc = "handler"
    /\ \E delivered \in BOOLEAN :
          LET message == Diagnostic(error)
              s == send_message(message, delivered)
          IN  /\ diag' = Append(diag, message)
              /\ everSent' = TRUE
              /\ pc' = IF s = NoError THEN "sleep_err" ELSE "crashed"
    /\ UNCHANGED <<tokens, clock, current_timestamp, response, homeworks, idx, error,
                   from_date, parsed, notified, sleeps, fetchGap, cycleStart, lastCycle, entered,
                   everFetched, 
                   lastHttp, sendFailed, firstRun>>

SleepAfterError_NoSleep ==
    /\ pc = "sleep_err"
    /\ pc' = "fetch"
    /\ lastCycle' = [result |-> "failed", current_date |-> NoneInt,
                     from_date |-> from_date]
    /\ response' = NoResponse
    /\ homeworks' = << >>
    /\ idx' = 0
    /\ error' = NoError
    /\ notified' = << >>
    /\ diag' = << >>
    /\ lastHttp' = NoHttp
    /\ sendFailed' = 0
    /\ UNCHANGED <<tokens, clock, current_timestamp, from_date, parsed, sleeps,
                   fetchGap, cycleStart, entered, everFetched, everSent, firstRun>>

\* Line 148: time.sleep(RETRY_TIME), which ends the failed cycle.
EndCycleFailed ==
    /\ pc = "sleep_err"
    /\ sleeps' = Append(sleeps, RETRY_TIME)
    /\ pc' = "fetch"
    /\ lastCycle' = [result |-> "failed", current_date |-> NoneInt,
                     from_date |-> from_date]
    /\ response' = NoResponse
    /\ homeworks' = << >>
    /\ idx' = 0
    /\ error' = NoError
    /\ notified' = << >>
    /\ diag' = << >>
    /\ lastHttp' = NoHttp
    /\ sendFailed' = 0
    /\ UNCHANGED <<tokens, clock, current_timestamp, from_date, parsed, fetchGap,
                   cycleStart, entered, everFetched, everSent>>

SleepAfterError == EndCycleFailed /\ UNCHANGED firstRun

Next ==
    \/ Start
    \/ CheckTokens
    \/ Fetch
    \/ Validate
    \/ NotifyOne
    \/ AdvanceCursor
    \/ SleepAfterSuccess
    \/ HandleError
    \/ SleepAfterError

Spec == Init /\ [][Next]_vars

(***************************************************************************)
(* The loop run for two cycles, the second against the answer of the      *)
(* first: what the first cycle did is remembered when it goes to sleep.    *)
(***************************************************************************)
ThisRun ==
    [done |-> TRUE, http |-> lastHttp, cursor |-> cycleStart, notified |-> notified,
     sendFailed |-> sendFailed, error |-> error]

FirstFetch == ~firstRun.done /\ Fetch

FetchSame == firstRun.done /\ FetchWith(firstRun.http)

RememberSuccess == ~firstRun.done /\ EndCycleOk /\ firstRun' = ThisRun

RememberFailure == ~firstRun.done /\ EndCycleFailed /\ firstRun' = ThisRun

NextTwice ==
    \/ Start
    \/ CheckTokens
    \/ FirstFetch
    \/ FetchSame
    \/ Validate
    \/ NotifyOne
    \/ AdvanceCursor
    \/ HandleError
    \/ RememberSuccess
    \/ RememberFailure

SpecTwice == Init /\ [][NextTwice]_vars

LoopPcs == {"fetch", "validate", "notify", "sleep_ok", "handler", "sleep_err"}

\* Positions at which the latest fetch has been issued and its cycle has not
\* yet slept (a crash freezes the cycle where it was).
InCycle == pc \in {"validate", "notify", "sleep_ok", "handler", "sleep_err", "crashed"}
              /\ everFetched

AllPresent == tokens.practicum /\ tokens.telegram /\ tokens.chat

WellFormed(resp) == resp.type = "dict" /\ resp.homeworks.type = "list"

Fetched(resp) == resp.type # "unbound"

TypeOK ==
    /\ tokens \in TokenSets
    /\ pc \in LoopPcs \cup {"start", "check", "exited", "crashed"}
    /\ current_timestamp \in ServerDates \cup {NoneInt}
    /\ clock \in ClockTimes \cup {NoneInt}
    /\ from_date \in ServerDates \cup {NoneInt}
    /\ idx \in 0..(MaxHomeworks + 1)
    /\ Len(notified) <= MaxHomeworks
    /\ Len(diag) <= 1

(***************************************************************************)
(* Claims                                                                  *)
(***************************************************************************)

\* C1: once main() has entered the polling loop, no outcome of a poll cycle
\* ends the loop: main() stays inside `while True` whatever the fetch, the
\* validation, the translation, the sends and the diagnostic send do.
C1_NoOutcomeEndsLoop == entered => pc \in LoopPcs

\* C2: after a cycle that succeeded on a response without current_date, the
\* cursor holds the value it held when the cycle began.
C2_CursorKeptWithoutCurrentDate ==
    (pc = "sleep_ok" /\ response.current_date = NoneInt)
        => current_timestamp = cycleStart

\* C3 as stated: after a cycle that succeeded on a response with
\* current_date = d the cursor is d, and the next fetch uses from_date = d.
C3_NextFetchFromCurrentDate ==
    /\ (pc = "sleep_ok" /\ response.current_date # NoneInt)
          => current_timestamp = response.current_date
    /\ (InCycle /\ lastCycle.result = "ok" /\ lastCycle.current_date # NoneInt)
          => from_date = lastCycle.current_date

\* C3 as amended: after a cycle that succeeded on a response with
\* current_date = d the cursor is d; the next fetch uses from_date = d when
\* d is not zero, and the time read from the clock when d is zero.
C3_NextFetchFromNonZeroCurrentDate ==
    /\ (pc = "sleep_ok" /\ response.current_date # NoneInt)
          => current_timestamp = response.current_date
    /\ (InCycle /\ lastCycle.result = "ok" /\ lastCycle.current_date # NoneInt)
          => from_date = IF lastCycle.current_date = 0 THEN clock
                         ELSE lastCycle.current_date

C3_Witness ==
    /\ pc = "validate"
    /\ lastCycle.result = "ok"
    /\ lastCycle.current_date = MaxTime
    /\ from_date = MaxTime
    /\ clock # MaxTime

\* C4: a cycle that fails with any error leaves the cursor as it was when the
\* cycle began; the cursor differs from its value at the start of the cycle
\* only when the cycle completed without error.
C4_FailedCycleKeepsCursor ==
    /\ error # NoError => current_timestamp = cycleStart
    /\ (pc = "fetch" /\ lastCycle.result = "failed") => current_timestamp = cycleStart
    /\ (everFetched /\ current_timestamp # cycleStart)
          => /\ pc \in {"sleep_ok", "fetch"}
             /\ error = NoError
             /\ pc = "fetch" => lastCycle.result = "ok"

C4_Witness ==
    /\ pc = "sleep_err"
    /\ error.type = "TelegramError"
    /\ Len(notified) = 1
    /\ response.current_date \notin {NoneInt, cycleStart}
    /\ current_timestamp = cycleStart

\* C5: every error of a cycle leads to exactly one diagnostic send, of the
\* text that embeds the error, after which the loop goes on to sleep and poll
\* again.
C5_OneDiagnosticThenRetry ==
    (error # NoError /\ pc # "handler")
        => (diag = <<Diagnostic(error)>> /\ pc = "sleep_err")

\* C6: between two consecutive fetches there is exactly one sleep of
\* RETRY_TIME, after a failed cycle as after a successful one, and a fetch
\* starts only when the cycle before it has ended with its sleep.
C6_OneSleepBetweenFetches ==
    /\ (InCycle /\ lastCycle.result # "none") => fetchGap = <<RETRY_TIME>>
    /\ (pc = "fetch" /\ everFetched)
          => (sleeps = <<RETRY_TIME>> /\ lastCycle.result \in {"ok", "failed"})
    /\ pc # "fetch" => sleeps = << >>

C6_Witness ==
    /\ pc = "validate"
    /\ lastCycle.result = "failed"
    /\ fetchGap = <<RETRY_TIME>>

\* C7: with one of the three secrets missing, check_tokens() is false and
\* main() never enters the loop, never fetches, never sends, and ends; with
\* all three present the loop is entered.
C7_MissingSecretNeverPolls ==
    /\ check_tokens(tokens) = AllPresent
    /\ ~AllPresent => /\ ~entered /\ ~everFetched /\ ~everSent
                      /\ pc \in {"start", "check", "exited", "crashed"}
    /\ (AllPresent /\ pc \notin {"start", "check"}) => (entered /\ pc # "exited")

C7_Witness ==
    /\ pc = "exited"
    /\ tokens.practicum /\ tokens.telegram /\ ~tokens.chat

\* C8: a cycle on a valid response whose homeworks list is empty sends no
\* notification and no diagnostic, raises no error, and leaves a cursor (an
\* integer timestamp) for the next cycle.
C8_EmptyListYieldsCursor ==
    (InCycle /\ WellFormed(response) /\ response.homeworks.items = << >>)
        => /\ notified = << >> /\ diag = << >> /\ error = NoError
           /\ pc = "sleep_ok" => current_timestamp \in ServerDates

\* C9: when parse_status is given a record whose status is not a key of
\* HOMEWORK_STATUSES it raises the KeyError that names that status.
C9_UnknownStatusRaisesKeyError ==
    (pc = "handler" /\ idx >= 1
        /\ Get(homeworks[idx], "status") \notin DOMAIN HOMEWORK_STATUSES)
        => error = [type |-> "KeyError",
                    msg |-> <<"undocumented_status">>
                            \o ReprKey(Get(homeworks[idx], "status"))]

\* C10: on a response that is not a dict, or has no homeworks, or whose
\* homeworks is not a list, check_response raises TypeError, nothing has been
\* sent when it raises, and no homework notification is sent in that cycle; on
\* a dict with a list under homeworks it returns that list.
C10_MalformedRaisesTypeError ==
    /\ (InCycle /\ Fetched(response) /\ ~WellFormed(response) /\ pc # "validate")
          => /\ error.type = "TypeError"
             /\ error.msg[1] \in {"bad_response_type", "bad_homeworks_type"}
             /\ notified = << >>
             /\ homeworks = << >>
             /\ pc = "handler" => diag = << >>
    /\ (InCycle /\ WellFormed(response) /\ pc # "validate")
          => homeworks = response.homeworks.items
    /\ pc \in {"notify", "sleep_ok"} => WellFormed(response)

C10_Witness ==
    /\ pc = "sleep_err"
    /\ response.type = "dict"
    /\ response.homeworks.type = "str"
    /\ error.type = "TypeError"
    /\ diag # << >>

\* C11: when the fetch answers with a status other than 200 the cycle fails
\* with the ValueError of line 64 before the body is parsed: response.json()
\* is not called, nothing is validated and no homework notification is sent.
C11_NonOkFailsBeforeParse ==
    (InCycle /\ ~lastHttp.raised /\ lastHttp.status_code # HTTP_OK)
        => /\ error = [type |-> "ValueError",
                       msg |-> <<"unexpected_status_code", ENDPOINT>>]
           /\ ~parsed
           /\ ~Fetched(response)
           /\ homeworks = << >> /\ idx = 0
           /\ notified = << >>
           /\ pc \in {"handler", "sleep_err", "crashed"}

C11_Witness ==
    /\ pc = "sleep_err"
    /\ lastHttp.status_code = 503
    /\ error.msg[1] = "unexpected_status_code"
    /\ ~parsed

\* C12: when bot.send_message refuses the notification of record i, the cycle
\* stops there: records after i are not notified, the cursor keeps the value
\* it had at the start of the cycle, and the handler sends the diagnostic of
\* that TelegramError.
C12_FailedSendAbortsCycle ==
    sendFailed > 0
        => /\ pc \in {"handler", "sleep_err", "crashed"}
           /\ error = [type |-> "TelegramError", msg |-> <<"send_failed">>]
           /\ idx = sendFailed
           /\ Len(notified) = sendFailed - 1
           /\ current_timestamp = cycleStart
           /\ diag = IF pc = "handler" THEN << >> ELSE <<Diagnostic(error)>>

C12_Witness ==
    /\ pc = "sleep_err"
    /\ sendFailed = 1
    /\ Len(homeworks) = 2
    /\ parse_status(homeworks[2]).err = NoError
    /\ response.current_date \notin {NoneInt, cycleStart}
    /\ notified = << >>

\* C13: a second cycle that starts from the same cursor and gets the same
\* answer as the first, with bot.send_message behaving as it did the first
\* time, delivers the same notification texts in the same order and ends
\* with the same error: nothing is suppressed the second time.
C13_SameAnswerSameNotifications ==
    (firstRun.done /\ pc \in {"sleep_ok", "sleep_err", "crashed"}
        /\ cycleStart = firstRun.cursor /\ sendFailed = firstRun.sendFailed)
        => (notified = firstRun.notified /\ error = firstRun.error)

C13_Witness ==
    /\ firstRun.done
    /\ pc = "sleep_ok"
    /\ cycleStart = firstRun.cursor
    /\ Len(firstRun.notified) = 2
    /\ notified = firstRun.notified

Range(f) == {f[k] : k \in DOMAIN f}

\* C14: the error raised for a status other than 200 carries the endpoint and
\* the status code received, and so does the diagnostic the loop relays.
C14_StatusErrorCarriesCode ==
    (InCycle /\ ~lastHttp.raised /\ lastHttp.status_code # HTTP_OK)
        => /\ ENDPOINT \in Range(error.msg)
           /\ ToString(lastHttp.status_code) \in Range(error.msg)
           /\ pc # "handler" => ToString(lastHttp.status_code) \in Range(diag[1])

Recognized(homework) ==
    /\ "status" \in DOMAIN homework
    /\ homework["status"] \in DOMAIN HOMEWORK_STATUSES

\* C15: the notifications of a cycle are the texts of a prefix of homeworks,
\* in order, each holding the record's name and the verdict of its status;
\* record k is handled only after records 1..k-1 were notified; when every
\* status is recognized and every send succeeds there is one per record.
C15_NotificationsArePrefixInOrder ==
    (InCycle /\ WellFormed(response) /\ pc # "validate")
        => /\ Len(notified) <= Len(homeworks)
           /\ \A k \in 1..Len(notified) :
                 /\ Recognized(homeworks[k])
                 /\ notified[k] = <<"status_changed",
                                    Get(homeworks[k], "homework_name"),
                                    HOMEWORK_STATUSES[homeworks[k]["status"]]>>
           /\ pc # "sleep_ok" => Len(notified) = idx - 1
           /\ pc = "sleep_ok" => Len(notified) = Len(homeworks)
           /\ ((\A k \in 1..Len(homeworks) : Recognized(homeworks[k]))
                  /\ sendFailed = 0 /\ pc # "notify")
                 => (pc = "sleep_ok" /\ Len(notified) = Len(homeworks))

C15_Witness ==
    /\ pc = "sleep_ok"
    /\ Len(notified) = 2
    /\ notified[1][3] = "verdict_rejected"
    /\ notified[2][3] = "verdict_approved"

\* C16: the from_date of a fetch is the cursor passed to the cycle when that
\* cursor is a non-zero integer, and the reading of the clock when the cursor
\* is zero or None.
C16_WindowStartIsCursorUnlessFalsy ==
    InCycle => from_date = IF cycleStart \in {0, NoneInt} THEN clock ELSE cycleStart

C16_Witness ==
    /\ pc = "validate"
    /\ cycleStart = 0
    /\ from_date = clock
    /\ lastCycle.result = "ok"

\* C17: for a record without a status, the empty record included,
\* parse_status reads the status as None and can only end with the KeyError
\* for None.
C17_AbsentStatusRaisesKeyError ==
    (pc = "handler" /\ idx >= 1 /\ "status" \notin DOMAIN homeworks[idx])
        => error = [type |-> "KeyError", msg |-> <<"undocumented_status", "None">>]

\* C18: whenever a cycle starts, the cursor is an integer timestamp, never
\* None.
C18_CursorNeverNone ==
    /\ pc = "fetch" => current_timestamp # NoneInt
    /\ InCycle => cycleStart # NoneInt

\* C19: the poll that follows a failed cycle uses the from_date the failed
\* cycle used.
C19_RetryUsesSameWindow ==
    (InCycle /\ lastCycle.result = "failed") => from_date = lastCycle.from_date
====
